---- MODULE Spec2Model ----
(***************************************************************************)
(* pytest-data: get_data merges the fixture data found on the module, the  *)
(* class, the function and request.param over a default; use_data and      *)
(* use_data_parametrize tag a function; pytest_generate_tests turns the    *)
(* aggregate tag into indirect parametrizations.                           *)
(*                                                                         *)
(* Python objects live in a heap: a dict or a list is a cell with an       *)
(* identity, a name holds a reference to it.  get_data is modelled with    *)
(* its allocations (data = {}, the list comprehension, the {} and [] made  *)
(* for the getters), so that aliasing of a result with an input is         *)
(* something the model can show.                                           *)
(***************************************************************************)
EXTENDS Integers, Sequences, FiniteSets, Bags, TLC

\* Longest list of mappings a layer holds in SpecMerge.
MaxLen == 3

\* Keys of the data mappings.
Keys == {"a", "b"}

VARIABLES heap, attrs, fname, default_data, ret, ret_pkg, first, calls, bound,
          registered, last

vars == <<heap, attrs, fname, default_data, ret, ret_pkg, first, calls, bound,
          registered, last>>

----------------------------------------------------------------------------
(* Python values and heap cells *)

Absent == [k |-> "absent", a |-> 0]
None == [k |-> "none", a |-> 0]
ValueError == [k |-> "ValueError", a |-> 0]
AssertionError == [k |-> "AssertionError", a |-> 0]
AttributeError == [k |-> "AttributeError", a |-> 0]
\* The decorated function object, as a value.
Func == [k |-> "function", a |-> 0]
NotCalled == [k |-> "notcalled", a |-> 0]
Scalar(n) == [k |-> "int", a |-> n]
Ref(a) == [k |-> "ref", a |-> a]

Free == [t |-> "free", d |-> <<>>, l |-> <<>>]
DictObj(d) == [t |-> "dict", d |-> d, l |-> <<>>]
ListObj(l) == [t |-> "list", d |-> <<>>, l |-> l]

\* The heap is the sequence of the cells allocated so far; an allocation takes
\* the next address.
EmptyHeap == <<>>
New(h) == Len(h) + 1
Alloc(h, obj) == Append(h, obj)

\* The cells are freed (their objects are dead); addresses are not reused.
Release(h, cells) == [a \in 1 .. Len(h) |-> IF a \in cells THEN Free ELSE h[a]]

IsDict(h, v) == v.k = "ref" /\ h[v.a].t = "dict"
IsList(h, v) == v.k = "ref" /\ h[v.a].t = "list"

\* type(x) for the values the model holds.
TypeOf(h, v) == IF v.k = "ref" THEN h[v.a].t ELSE v.k

\* bool(x): None, an empty dict and an empty list are false.
Truthy(h, v) ==
    CASE v.k = "ref" /\ h[v.a].t = "dict" -> DOMAIN h[v.a].d # {}
      [] v.k = "ref" /\ h[v.a].t = "list" -> h[v.a].l # <<>>
      [] v.k = "int" -> v.a # 0
      [] OTHER -> FALSE

\* The value behind a reference, without its identity.
Plain(h, v) ==
    CASE IsDict(h, v) -> [shape |-> "dict", d |-> h[v.a].d, l |-> <<>>]
      [] IsList(h, v) ->
           [shape |-> "list", d |-> <<>>,
            l |-> [i \in 1 .. Len(h[v.a].l) |-> h[h[v.a].l[i].a].d]]
      [] OTHER -> [shape |-> v.k, d |-> <<>>, l |-> <<>>]

----------------------------------------------------------------------------
(* Literals of the test module, and their construction in the heap *)

LAbsent == [s |-> "absent", d |-> <<>>, l |-> <<>>]
LScalar == [s |-> "int", d |-> <<>>, l |-> <<>>]
LDict(d) == [s |-> "dict", d |-> d, l |-> <<>>]
LList(l) == [s |-> "list", d |-> <<>>, l |-> l]

RECURSIVE StoreElems(_, _, _, _)
StoreElems(h, ds, i, refs) ==
    IF i > Len(ds) THEN [heap |-> h, refs |-> refs]
    ELSE LET a == New(h)
         IN  StoreElems(Alloc(h, DictObj(ds[i])), ds, i + 1,
                        Append(refs, Ref(a)))

Store(h, lit) ==
    CASE lit.s = "dict" ->
           [heap |-> Alloc(h, DictObj(lit.d)), ret |-> Ref(New(h))]
      [] lit.s = "list" ->
           LET e == StoreElems(h, lit.l, 1, <<>>)
           IN  [heap |-> Alloc(e.heap, ListObj(e.refs)), ret |-> Ref(New(e.heap))]
      [] lit.s = "int" -> [heap |-> h, ret |-> Scalar(1)]
      [] OTHER -> [heap |-> h, ret |-> Absent]

----------------------------------------------------------------------------
(* The objects get_data reads *)

Objects == {"module", "cls", "function", "request"}
Names == {"foo", "param", "data"}
NoAttrs == [o \in Objects |-> [n \in Names |-> Absent]]

\* getattr(target, attribute_name) without a default: an absent attribute is an
\* error, for request.param as for the others.
GetAttrNoDefault(at, target, attribute_name, default) ==
    IF at[target][attribute_name] = Absent THEN AttributeError
    ELSE at[target][attribute_name]

\* getattr(target, attribute_name, default)
GetAttr(at, target, attribute_name, default) ==
    IF at[target][attribute_name] = Absent THEN default
    ELSE at[target][attribute_name]

\* (request.module, request.cls, request.function)
TARGETS == <<"module", "cls", "function">>

----------------------------------------------------------------------------
(* functions.py *)

\* A getter that takes a value of the wrong type for an empty one.
_getter_coerce(h, at, target, attribute_name, default) ==
    LET value_type == TypeOf(h, default)
        value == GetAttr(at, target, attribute_name, default)
    IN  IF TypeOf(h, value) # value_type THEN default ELSE value

\* _getter: the attribute's value, or the default; ValueError when the value
\* is not of the default's type.
_getter(h, at, target, attribute_name, default) ==
    LET value_type == TypeOf(h, default)
        value == GetAttr(at, target, attribute_name, default)
    IN  IF TypeOf(h, value) # value_type THEN ValueError ELSE value

\* dict.update: every key of src is inserted or replaced in the cell dst.
DictUpdate(h, dst, src) ==
    LET old == h[dst].d
        new == h[src.a].d
    IN  [h EXCEPT ![dst] = DictObj([k \in DOMAIN old \cup DOMAIN new |->
                                      IF k \in DOMAIN new THEN new[k] ELSE old[k]])]

RECURSIVE MergeLoop(_, _, _, _)
MergeLoop(h, data, dicts, i) ==
    IF i > Len(dicts) THEN h
    ELSE IF Truthy(h, dicts[i])
         THEN MergeLoop(DictUpdate(h, data, dicts[i]), data, dicts, i + 1)
         ELSE MergeLoop(h, data, dicts, i + 1)

\* A merge that updates its first argument in place of a new dict.
_merge_inplace(h, dicts) ==
    IF IsDict(h, dicts[1])
    THEN [heap |-> MergeLoop(h, dicts[1].a, dicts, 2), ret |-> dicts[1]]
    ELSE [heap |-> MergeLoop(Alloc(h, DictObj(<<>>)), New(h), dicts, 1), ret |-> Ref(New(h))]

\* _merge: data = {} is a new cell; the truthy items update it in order.
_merge(h, dicts) ==
    LET data == New(h)
    IN  [heap |-> MergeLoop(Alloc(h, DictObj(<<>>)), data, dicts, 1),
         ret |-> Ref(data)]

Exhausted == [k |-> "exhausted", a |-> 0]

\* iter(l) in place of cycle(l): exhausted after the last item.
cycle_once(h, l, i) ==
    LET s == h[l.a].l
    IN  IF i >= Len(s) THEN Exhausted ELSE s[i + 1]

\* itertools.cycle(l), its i-th item (from 0): exhausted at once when l is empty.
cycle(h, l, i) ==
    LET s == h[l.a].l
    IN  IF s = <<>> THEN Exhausted ELSE s[(i % Len(s)) + 1]

\* zip_longest(*iterables), its i-th tuple: None fills an exhausted iterable;
\* the zip ends when every iterable is exhausted.
zip_longest(h, lists, i) ==
    LET items == [j \in 1 .. Len(lists) |-> cycle(h, lists[j], i)]
    IN  IF \A j \in 1 .. Len(lists) : items[j] = Exhausted THEN Exhausted
        ELSE [j \in 1 .. Len(lists) |-> IF items[j] = Exhausted THEN None ELSE items[j]]

RECURSIVE MaxOf(_)
MaxOf(s) ==
    IF Len(s) = 1 THEN s[1]
    ELSE LET m == MaxOf(Tail(s)) IN IF s[1] >= m THEN s[1] ELSE m

\* [_merge(*datas) for datas in islice(zip_longest(...), max_len)]
RECURSIVE ListComp(_, _, _, _, _)
ListComp(h, lists, i, max_len, acc) ==
    LET datas == IF i >= max_len THEN Exhausted ELSE zip_longest(h, lists, i)
    IN  IF datas = Exhausted
        THEN [heap |-> Alloc(h, ListObj(acc)), ret |-> Ref(New(h))]
        ELSE LET m == _merge(h, datas)
             IN  ListComp(m.heap, lists, i + 1, max_len, Append(acc, m.ret))

\* list(map(getter, TARGETS)): the first ValueError ends the map.
Getters(h, at, attribute_name, default) ==
    [j \in 1 .. Len(TARGETS) |-> _getter(h, at, TARGETS[j], attribute_name, default)]

AnyRaised(s) == \E j \in 1 .. Len(s) : s[j] = ValueError

\* [default_data] + list(map(getter, TARGETS)) + [_getter(request, 'param', ...)]
LayersParamLow(dflt, vals, p) == <<dflt, p>> \o vals
Layers(dflt, vals, p) == <<dflt>> \o vals \o <<p>>

\* The branch of get_data for a default of type kind ("dict" or "list"), with
\* the layers  [default_data] + list(map(getter, TARGETS)) + [param getter].
Branch(h, at, attribute_name, dflt, kind) ==
    LET t1 == New(h)
        h1 == Alloc(h, IF kind = "dict" THEN DictObj(<<>>) ELSE ListObj(<<>>))
        vals == Getters(h1, at, attribute_name, Ref(t1))
        t2 == New(h1)
        h2 == Alloc(h1, IF kind = "dict" THEN DictObj(<<>>) ELSE ListObj(<<>>))
        p == _getter(h2, at, "request", "param", Ref(t2))
        dicts == Layers(dflt, vals, p)
    IN  IF AnyRaised(vals) THEN [heap |-> h, ret |-> ValueError]
        ELSE IF p = ValueError THEN [heap |-> h, ret |-> ValueError]
        ELSE LET r == IF kind = "dict" THEN _merge(h2, dicts)
                      ELSE ListComp(h2, dicts, 0,
                                    MaxOf([j \in 1 .. Len(dicts) |-> Len(h2[dicts[j].a].l)]),
                                    <<>>)
             IN  [heap |-> Release(r.heap, {t1, t2} \ {r.ret.a}), ret |-> r.ret]

\* get_data(request, attribute_name, default_data)
get_data(h, at, attribute_name, dflt) ==
    IF IsDict(h, dflt) THEN Branch(h, at, attribute_name, dflt, "dict")
    ELSE IF IsList(h, dflt) THEN Branch(h, at, attribute_name, dflt, "list")
    ELSE [heap |-> h, ret |-> ValueError]

----------------------------------------------------------------------------
(* __init__.py: the package-level copy, without request.param *)

BranchPkg(h, at, attribute_name, dflt, kind) ==
    LET t1 == New(h)
        h1 == Alloc(h, IF kind = "dict" THEN DictObj(<<>>) ELSE ListObj(<<>>))
        vals == Getters(h1, at, attribute_name, Ref(t1))
        data_list == <<dflt>> \o vals
    IN  IF AnyRaised(vals) THEN [heap |-> h, ret |-> ValueError]
        ELSE LET r == IF kind = "dict" THEN _merge(h1, data_list)
                      ELSE ListComp(h1, data_list, 0,
                                    MaxOf([j \in 1 .. Len(data_list) |->
                                             Len(h1[data_list[j].a].l)]),
                                    <<>>)
             IN  [heap |-> Release(r.heap, {t1} \ {r.ret.a}), ret |-> r.ret]

get_data_pkg(h, at, attribute_name, dflt) ==
    IF IsDict(h, dflt) THEN BranchPkg(h, at, attribute_name, dflt, "dict")
    ELSE IF IsList(h, dflt) THEN BranchPkg(h, at, attribute_name, dflt, "list")
    ELSE [heap |-> h, ret |-> ValueError]

----------------------------------------------------------------------------
(* SpecMerge: get_data as a function of its inputs.  The five layers are     *)
(* drawn at the start; each copy of get_data is then called once.            *)

\* Layer numbers: 0 default_data, 1 module, 2 class, 3 function, 4 request.param.
LayerValue(L, j) == Scalar(L * (MaxLen + 1) + j)
LayerDict(L, j, ks) == [k \in ks |-> LayerValue(L, j)]
KeySets == SUBSET Keys
LayerNos == 0 .. 4

\* Which keys element j of layer L holds, in the list inputs: the same key
\* everywhere; keys alternating by layer; full and empty mappings alternating
\* by position; one or two keys by layer and position.
KeyPatterns ==
    {[L \in LayerNos |-> [j \in 1 .. MaxLen |-> {"a"}]],
     [L \in LayerNos |-> [j \in 1 .. MaxLen |-> IF L % 2 = 0 THEN {"a"} ELSE {"b"}]],
     [L \in LayerNos |-> [j \in 1 .. MaxLen |-> IF j % 2 = 1 THEN Keys ELSE {}]],
     [L \in LayerNos |-> [j \in 1 .. MaxLen |-> IF (L + j) % 2 = 0 THEN {"a"} ELSE Keys]]}

DictLits(L) == {LDict(LayerDict(L, 0, ks)) : ks \in KeySets}
ListLit(L, n, pat) == LList([j \in 1 .. n |-> LayerDict(L, j, pat[L][j])])
ShapeLits(L) ==
    {LAbsent, LScalar, LDict(LayerDict(L, 0, {"a"})), LList(<<LayerDict(L, 1, {"a"})>>)}

\* A source's list of n mappings; n = -1 stands for a source without the attribute.
SourceLit(L, n, pat) == IF n < 0 THEN LAbsent ELSE ListLit(L, n, pat)

\* The heap and the attributes holding the five literals.
Build(ld, lm, lc, lf, lp) ==
    LET s0 == Store(EmptyHeap, ld)
        s1 == Store(s0.heap, lm)
        s2 == Store(s1.heap, lc)
        s3 == Store(s2.heap, lf)
        s4 == Store(s3.heap, lp)
    IN  [heap |-> s4.heap, dflt |-> s0.ret,
         attrs |-> [NoAttrs EXCEPT !["module"]["foo"] = s1.ret,
                                   !["cls"]["foo"] = s2.ret,
                                   !["function"]["foo"] = s3.ret,
                                   !["request"]["param"] = s4.ret]]

TestName == <<"t", "e", "s", "t", "_", "f", "o", "o">>

\* The last operation: its name, what it returned, its keyword arguments and
\* the attributes before it.
Op(op, r, data, before) == [op |-> op, ret |-> r, data |-> data, before |-> before]

\* What was last bound to each layer, whoever bound it, and whether a tagging
\* replaced an earlier value of the function's attribute.
NoBound ==
    [module |-> Absent, cls |-> Absent, function |-> Absent, param |-> Absent,
     retagged |-> FALSE]

InitWith(b) ==
    /\ heap = b.heap
    /\ attrs = b.attrs
    /\ default_data = b.dflt
    /\ fname = TestName
    /\ ret = NotCalled
    /\ ret_pkg = NotCalled
    /\ first = NotCalled
    /\ calls = 0
    /\ bound = NoBound
    /\ registered = EmptyBag
    /\ last = Op("init", None, <<>>, <<>>)

InitMerge ==
    \/ \E ld \in DictLits(0), lm \in DictLits(1) \cup {LAbsent},
          lc \in DictLits(2) \cup {LAbsent}, lf \in DictLits(3) \cup {LAbsent},
          lp \in DictLits(4) \cup {LAbsent} :
          InitWith(Build(ld, lm, lc, lf, lp))
    \/ \E pat \in KeyPatterns, nd \in 0 .. MaxLen, nm \in -1 .. MaxLen,
          nc \in -1 .. MaxLen, nf \in -1 .. MaxLen, np \in -1 .. MaxLen :
          InitWith(Build(ListLit(0, nd, pat), SourceLit(1, nm, pat), SourceLit(2, nc, pat),
                         SourceLit(3, nf, pat), SourceLit(4, np, pat)))
    \/ \E ld \in ShapeLits(0) \ {LAbsent}, lm \in ShapeLits(1), lc \in ShapeLits(2),
          lf \in ShapeLits(3), lp \in ShapeLits(4) :
          InitWith(Build(ld, lm, lc, lf, lp))

\* The same request and default are handed to both copies, functions.get_data
\* first:  get_data(request, 'foo', default_data).
CallGetData ==
    /\ ret = NotCalled
    /\ LET r == get_data(heap, attrs, "foo", default_data)
       IN  heap' = r.heap /\ ret' = r.ret
    /\ last' = Op("get_data", None, <<>>, <<>>)
    /\ UNCHANGED <<attrs, fname, default_data, ret_pkg, first, calls, bound, registered>>

\* pytest_data.get_data(request, 'foo', default_data)
CallGetDataPkg ==
    /\ ret # NotCalled
    /\ ret_pkg = NotCalled
    /\ LET r == get_data_pkg(heap, attrs, "foo", default_data)
       IN  heap' = r.heap /\ ret_pkg' = r.ret
    /\ last' = Op("get_data_pkg", None, <<>>, <<>>)
    /\ UNCHANGED <<attrs, fname, default_data, ret, first, calls, bound, registered>>

NextMerge == CallGetData \/ CallGetDataPkg

SpecMerge == InitMerge /\ [][NextMerge]_vars

----------------------------------------------------------------------------
(* use_data, use_data_parametrize and the collection hook *)

\* A prefix test that also wants the underscore of pytest's test_ names.
startswith_underscore(name, prefix) ==
    /\ Len(name) > Len(prefix)
    /\ SubSeq(name, 1, Len(prefix) + 1) = prefix \o <<"_">>

\* str.startswith
startswith(name, prefix) ==
    Len(name) >= Len(prefix) /\ SubSeq(name, 1, Len(prefix)) = prefix

TestPrefix == <<"t", "e", "s", "t">>

\* setattr that keeps an attribute the object already has.
SetAttrsDefault(at, obj, data) ==
    [at EXCEPT ![obj] = [n \in Names |->
                           IF n \in DOMAIN data /\ @[n] = Absent THEN data[n] ELSE @[n]]]

\* for key, value in data.items(): setattr(func, key, value)
SetAttrs(at, obj, data) ==
    [at EXCEPT ![obj] = [n \in Names |-> IF n \in DOMAIN data THEN data[n] ELSE @[n]]]

\* A wrapper that attaches the data before it checks the name.
use_data_wrapper_late_assert(at, name, data) ==
    [attrs |-> SetAttrs(at, "function", data),
     ret |-> IF startswith(name, TestPrefix) THEN Func ELSE AssertionError]

\* functions.use_data(**data)(func), func.__name__ being name
use_data_wrapper(at, name, data) ==
    IF ~startswith(name, TestPrefix) THEN [attrs |-> at, ret |-> AssertionError]
    ELSE [attrs |-> SetAttrs(at, "function", data), ret |-> Func]

\* pytest_data.use_data(**data)(func): the package-level copy asserts nothing.
use_data_pkg_wrapper(at, name, data) ==
    [attrs |-> SetAttrs(at, "function", data), ret |-> Func]

\* functions.use_data_parametrize(**data)(func): func.data = data, data being
\* the cell of the keyword-argument dict.
use_data_parametrize_wrapper(at, data) ==
    [attrs |-> [at EXCEPT !["function"]["data"] = data], ret |-> Func]

\* metafunc.parametrize(key, value, indirect=...), recorded by the runner
parametrize(calls_, key, value, indirect) ==
    calls_ (+) SetToBag({[argnames |-> key, argvalues |-> value, indirect |-> indirect]})

RECURSIVE ParametrizeAll(_, _, _, _)
ParametrizeAll(calls_, d, keys, indirect) ==
    IF keys = {} THEN calls_
    ELSE LET key == CHOOSE k \in keys : TRUE
         IN  ParametrizeAll(parametrize(calls_, key, d[key], indirect), d, keys \ {key},
                            indirect)

\* A hook that leaves indirect at its default.
pytest_generate_tests_direct(h, at) ==
    LET data == GetAttr(at, "function", "data", None)
    IN  IF data = None THEN [calls |-> EmptyBag, ret |-> None]
        ELSE IF ~IsDict(h, data) THEN [calls |-> EmptyBag, ret |-> AttributeError]
        ELSE [calls |-> ParametrizeAll(EmptyBag, h[data.a].d, DOMAIN h[data.a].d, FALSE),
              ret |-> None]

\* plugin.pytest_generate_tests(metafunc): the parametrize calls it makes on a
\* new metafunc.  The default {} has no items; a data that is no dict has no
\* .items().
pytest_generate_tests(h, at) ==
    LET data == GetAttr(at, "function", "data", None)
    IN  IF data = None THEN [calls |-> EmptyBag, ret |-> None]
        ELSE IF ~IsDict(h, data) THEN [calls |-> EmptyBag, ret |-> AttributeError]
        ELSE [calls |-> ParametrizeAll(EmptyBag, h[data.a].d, DOMAIN h[data.a].d, TRUE),
              ret |-> None]

----------------------------------------------------------------------------
(* The literals of a test module, shared by Spec and SpecTag *)

\* Cell 1 is the {} that get_data's signature makes once, default_data={}.
PoolBuild ==
    LET s0 == Store(EmptyHeap, LDict(<<>>))
        s1 == Store(s0.heap, LDict([k \in {"a"} |-> Scalar(1)]))
        s2 == Store(s1.heap, LDict([k \in Keys |-> Scalar(2)]))
        s3 == Store(s2.heap, LList(<<[k \in {"a"} |-> Scalar(3)], [k \in {"b"} |-> Scalar(4)]>>))
    IN  [heap |-> s3.heap, shared |-> s0.ret, d1 |-> s1.ret, d2 |-> s2.ret, l1 |-> s3.ret]

Pool == PoolBuild.heap
PoolSize == Len(Pool)
SharedDefault == PoolBuild.shared
D1 == PoolBuild.d1
D2 == PoolBuild.d2
L1 == PoolBuild.l1

\* What a test author binds to an attribute, or a runner to request.param.
SourceVals == {D1, D2, L1, Scalar(1)}

----------------------------------------------------------------------------
(* SpecTag: a function is decorated, then collected *)

FuncNames ==
    {TestName, <<"f", "u", "n", "c">>, <<"t", "e", "s", "t", "i", "n", "g">>}
FixtureNames == {"client", "user"}

\* The keyword arguments of a use_data call.
Kwargs(names, vals) == UNION {[ns -> vals] : ns \in SUBSET names \ {{}}}
TagKwargs == Kwargs({"foo", "data"}, {D1, Scalar(1)})
\* The keyword arguments of a use_data_parametrize call: fixture |-> params.
ParamKwargs == UNION {[ns -> {L1}] : ns \in SUBSET FixtureNames}

InitTag ==
    /\ heap = Pool
    /\ attrs = NoAttrs
    /\ fname \in FuncNames
    /\ default_data = None
    /\ ret = NotCalled
    /\ ret_pkg = NotCalled
    /\ first = NotCalled
    /\ calls = 0
    /\ bound = NoBound
    /\ registered = EmptyBag
    /\ last = Op("init", None, <<>>, <<>>)

Rebound(at, data) ==
    IF "foo" \in DOMAIN data
    THEN [bound EXCEPT !.function = data["foo"],
                       !.retagged = @ \/ at["function"]["foo"] \notin {Absent, data["foo"]}]
    ELSE bound

\* @use_data(**data) of functions.py on the function; decorators run when the
\* test module is loaded, not while a fixture holds a result.
UseData(data) ==
    /\ ret = NotCalled
    /\ LET r == use_data_wrapper(attrs, fname, data)
       IN  /\ attrs' = r.attrs
           /\ last' = Op("use_data", r.ret, data, attrs)
           /\ bound' = IF r.ret = Func THEN Rebound(attrs, data) ELSE bound
    /\ UNCHANGED <<heap, fname, default_data, ret, ret_pkg, first, calls, registered>>

\* @use_data(**data) of the package on the function
UseDataPkg(data) ==
    /\ LET r == use_data_pkg_wrapper(attrs, fname, data)
       IN  /\ attrs' = r.attrs
           /\ last' = Op("use_data_pkg", r.ret, data, attrs)
    /\ bound' = Rebound(attrs, data)
    /\ UNCHANGED <<heap, fname, default_data, ret, ret_pkg, first, calls, registered>>

\* @use_data_parametrize(**d) on the function; the dict of the keyword
\* arguments is a new cell, the one func.data held before is dropped.
UseDataParametrize(d) ==
    /\ LET h == Alloc(Pool, DictObj(d))
           r == use_data_parametrize_wrapper(attrs, Ref(New(Pool)))
       IN  /\ heap' = h
           /\ attrs' = r.attrs
           /\ last' = Op("use_data_parametrize", r.ret, d, attrs)
    /\ UNCHANGED <<fname, default_data, ret, ret_pkg, first, calls, bound, registered>>

\* The runner collects the function: the hook is called with a new metafunc.
Collect ==
    /\ LET r == pytest_generate_tests(heap, attrs)
       IN  /\ registered' = r.calls
           /\ last' = Op("pytest_generate_tests", r.ret, <<>>, attrs)
    /\ UNCHANGED <<heap, attrs, fname, default_data, ret, ret_pkg, first, calls, bound>>

NextTag ==
    \/ \E data \in TagKwargs : UseData(data)
    \/ \E data \in TagKwargs : UseDataPkg(data)
    \/ \E d \in ParamKwargs : UseDataParametrize(d)
    \/ Collect

SpecTag == InitTag /\ [][NextTag]_vars

----------------------------------------------------------------------------
(* Spec: a test module's data is bound and rebound between tests; within a   *)
(* test a fixture calls get_data, the caller changes what it got, and the    *)
(* fixture is called again.                                                  *)

\* get_data calls within one test.
MaxCalls == 2

\* What the caller writes into a result.
Scribble == Scalar(0 - 1)

Init ==
    /\ heap = Pool
    /\ attrs = NoAttrs
    /\ fname = TestName
    /\ default_data = None
    /\ ret = NotCalled
    /\ ret_pkg = NotCalled
    /\ first = NotCalled
    /\ calls = 0
    /\ bound = NoBound
    /\ registered = EmptyBag
    /\ last = Op("init", None, <<>>, <<>>)

\* foo = v in the module or the class body (Absent: the attribute is deleted),
\* between tests.
Assign(obj, v) ==
    /\ ret = NotCalled
    /\ attrs' = [attrs EXCEPT ![obj]["foo"] = v]
    /\ bound' = [bound EXCEPT ![obj] = v]
    /\ last' = Op("assign", None, <<>>, <<>>)
    /\ UNCHANGED <<heap, fname, default_data, ret, ret_pkg, first, calls, registered>>

\* The runner sets up a fixture instance: request.param is its parameter, or
\* is missing when the fixture is not parametrized.
SetParam(v) ==
    /\ ret = NotCalled
    /\ attrs' = [attrs EXCEPT !["request"]["param"] = v]
    /\ bound' = [bound EXCEPT !.param = v]
    /\ last' = Op("param", None, <<>>, <<>>)
    /\ UNCHANGED <<heap, fname, default_data, ret, ret_pkg, first, calls, registered>>

\* The cells of a result that die with it.
Cells(h, v) ==
    IF v.k # "ref" THEN {}
    ELSE {v.a} \cup (IF h[v.a].t = "list" THEN {h[v.a].l[i].a : i \in 1 .. Len(h[v.a].l)}
                      ELSE {})

\* The first get_data(request, 'foo', dflt) of a test; without the third
\* argument dflt is the shared {} of the signature.
GetDataFirst(dflt) ==
    /\ ret = NotCalled
    /\ LET r == get_data(heap, attrs, "foo", dflt)
       IN  /\ heap' = r.heap
           /\ ret' = r.ret
           /\ first' = Plain(r.heap, r.ret)
    /\ default_data' = dflt
    /\ calls' = 1
    /\ last' = Op("get_data", None, <<>>, <<>>)
    /\ UNCHANGED <<attrs, fname, ret_pkg, bound, registered>>

\* The same call again; the caller keeps the new result and drops the old one
\* (last.before is the old result as the caller left it).
GetDataAgain ==
    /\ ret # NotCalled
    /\ calls < MaxCalls
    /\ LET r == get_data(heap, attrs, "foo", default_data)
           dead == {a \in Cells(heap, ret) \ Cells(r.heap, r.ret) : a > PoolSize}
       IN  /\ heap' = Release(r.heap, dead)
           /\ ret' = r.ret
    /\ calls' = calls + 1
    /\ last' = Op("get_data", None, <<>>, Plain(heap, ret))
    /\ UNCHANGED <<attrs, fname, default_data, ret_pkg, first, bound, registered>>

\* The mappings of the held result: the result, or the elements of the list.
ResultDicts == IF IsDict(heap, ret) THEN {ret.a} ELSE Cells(heap, ret) \ {ret.a}

\* result[k] = v: a key is added or replaced.
SetKey(a, k) ==
    /\ a \in ResultDicts
    /\ heap' = [heap EXCEPT ![a] = DictObj([x \in DOMAIN @.d \cup {k} |->
                                              IF x = k THEN Scribble ELSE @.d[x]])]
    /\ last' = Op("setitem", None, <<>>, <<>>)
    /\ UNCHANGED <<attrs, fname, default_data, ret, ret_pkg, first, calls, bound, registered>>

\* del result[k]
DelKey(a, k) ==
    /\ a \in ResultDicts
    /\ k \in DOMAIN heap[a].d
    /\ heap' = [heap EXCEPT ![a] = DictObj([x \in DOMAIN @.d \ {k} |-> @.d[x]])]
    /\ last' = Op("delitem", None, <<>>, <<>>)
    /\ UNCHANGED <<attrs, fname, default_data, ret, ret_pkg, first, calls, bound, registered>>

\* The test ends: what the calls allocated is dropped.
Teardown ==
    /\ ret # NotCalled
    /\ heap' = SubSeq(heap, 1, PoolSize)
    /\ ret' = NotCalled
    /\ first' = NotCalled
    /\ calls' = 0
    /\ last' = Op("teardown", None, <<>>, <<>>)
    /\ UNCHANGED <<attrs, fname, default_data, ret_pkg, bound, registered>>

Next ==
    \/ \E obj \in {"module", "cls"}, v \in SourceVals \cup {Absent} : Assign(obj, v)
    \/ \E v \in SourceVals \cup {Absent} : SetParam(v)
    \/ \E v \in SourceVals : UseData([n \in {"foo"} |-> v])
    \/ \E dflt \in {SharedDefault} \cup SourceVals : GetDataFirst(dflt)
    \/ GetDataAgain
    \/ \E a \in 1 .. Len(heap), k \in Keys : SetKey(a, k)
    \/ \E a \in 1 .. Len(heap), k \in Keys : DelKey(a, k)
    \/ Teardown

Spec == Init /\ [][Next]_vars

----------------------------------------------------------------------------
(* What the layers hold, read off the state *)

\* The five layers in ascending priority, as get_data finds them.
LayerRefs ==
    <<default_data, attrs["module"]["foo"], attrs["cls"]["foo"],
      attrs["function"]["foo"], attrs["request"]["param"]>>
Sources == 2 .. 5
ParamLayer == Len(TARGETS) + 2

ShapeOf(v) == TypeOf(heap, v)
\* A layer as a mapping: an absent layer counts as empty.
LayerMap(i) == IF IsDict(heap, LayerRefs[i]) THEN heap[LayerRefs[i].a].d ELSE <<>>
\* A layer as a list of mappings: an absent layer counts as empty.
LayerList(i) == IF IsList(heap, LayerRefs[i]) THEN Plain(heap, LayerRefs[i]).l ELSE <<>>

AllShaped(kind) ==
    /\ ShapeOf(default_data) = kind
    /\ \A i \in Sources : ShapeOf(LayerRefs[i]) \in {kind, "absent"}

Result == Plain(heap, ret)

----------------------------------------------------------------------------
(* C1 *)

----------------------------------------------------------------------------
(* C2 *)

\* C2: in the list branch the result is as long as the longest layer, and
\* its element i is the overwrite merge, in ascending priority, of element
\* (i mod length) of every non-empty layer; an empty or absent layer gives
\* nothing.
C2_ListCyclicMerge ==
    (ret # NotCalled /\ AllShaped("list")) =>
        \A R \in {Result} : \A LL \in {[j \in 1 .. 5 |-> LayerList(j)]} :
            /\ R.shape = "list"
            /\ \E n \in {Len(LL[j]) : j \in 1 .. 5} :
                  /\ \A j \in 1 .. 5 : Len(LL[j]) <= n
                  /\ Len(R.l) = n
            /\ \A i \in 1 .. Len(R.l) :
                  \A al \in {[j \in {x \in 1 .. 5 : LL[x] # <<>>} |->
                                LL[j][((i - 1) % Len(LL[j])) + 1]]} :
                      /\ DOMAIN R.l[i] = UNION {DOMAIN al[j] : j \in DOMAIN al}
                      /\ \A k \in DOMAIN R.l[i] :
                            \E j \in DOMAIN al :
                               /\ k \in DOMAIN al[j]
                               /\ \A j2 \in DOMAIN al : j2 > j => k \notin DOMAIN al[j2]
                               /\ R.l[i][k] = al[j][k]

\* Lengths 2, 3, 0, 1 and absent: the result has three elements, the third
\* takes the default's first element again, the empty class gives nothing.
C2_Witness ==
    /\ ret # NotCalled /\ AllShaped("list")
    /\ Len(LayerList(1)) = 2 /\ Len(LayerList(2)) = MaxLen
    /\ LayerRefs[3] # Absent /\ LayerList(3) = <<>>
    /\ Len(LayerList(4)) = 1 /\ LayerRefs[5] = Absent
    /\ DOMAIN LayerList(1)[1] = {"a"} /\ DOMAIN LayerList(2)[1] = {"b"}
    /\ Len(Result.l) = MaxLen
    /\ Result.l[3]["a"] = LayerList(1)[1]["a"]

----------------------------------------------------------------------------
(* C3 *)

Mismatch(i) == ShapeOf(LayerRefs[i]) \notin {ShapeOf(default_data), "absent"}

\* C3: get_data raises exactly when default_data is neither a mapping nor a
\* list, or a source holds a value of another shape than default_data;
\* otherwise it returns a value of the default's shape.
C3_ErrorExactly ==
    ret # NotCalled =>
        /\ ret = ValueError <=>
              \/ ShapeOf(default_data) \notin {"dict", "list"}
              \/ \E i \in Sources : Mismatch(i)
        /\ ret # ValueError => Result.shape = ShapeOf(default_data)

\* A list on the class under a mapping default, everything else well shaped:
\* the call raised.
C3_Witness ==
    /\ ret = ValueError
    /\ ShapeOf(default_data) = "dict"
    /\ ShapeOf(LayerRefs[3]) = "list"
    /\ \A i \in Sources \ {3} : ~Mismatch(i)

\* A request.param of another shape alone makes the call raise.
C3_WitnessParam ==
    /\ ret = ValueError
    /\ ShapeOf(default_data) = "list"
    /\ Mismatch(ParamLayer)
    /\ \A i \in Sources \ {ParamLayer} : ~Mismatch(i)

----------------------------------------------------------------------------
(* C4 *)

\* C4: the docstring's order, function > class > module > request.param >
\* default_data: a key of request.param that module, class or function also
\* hold has the value of the highest of these three.
C4_DocstringPriority ==
    (ret # NotCalled /\ AllShaped("dict")) =>
        \A k \in DOMAIN LayerMap(ParamLayer) :
            \A i \in 2 .. 4 :
                (/\ k \in DOMAIN LayerMap(i)
                 /\ \A j \in 2 .. 4 : j > i => k \notin DOMAIN LayerMap(j))
                => Result.d[k] = LayerMap(i)[k]

----------------------------------------------------------------------------
(* C10 *)

\* C10: on a request without param the two copies of get_data agree: both
\* raise, or both return equal values.
C10_CopiesAgree ==
    (ret # NotCalled /\ ret_pkg # NotCalled /\ attrs["request"]["param"] = Absent) =>
        /\ ret = ValueError <=> ret_pkg = ValueError
        /\ Plain(heap, ret) = Plain(heap, ret_pkg)

\* Both copies returned a list of MaxLen merged mappings for a request
\* without param whose module, class and function all hold data.
C10_Witness ==
    /\ ret # NotCalled /\ ret_pkg # NotCalled
    /\ attrs["request"]["param"] = Absent
    /\ \A i \in 2 .. 4 : LayerList(i) # <<>>
    /\ Plain(heap, ret_pkg).shape = "list"
    /\ Len(Plain(heap, ret_pkg).l) = MaxLen
    /\ ret # ret_pkg

\* Both copies raised for a request without param.
C10_WitnessRaise ==
    /\ ret = ValueError /\ ret_pkg = ValueError
    /\ attrs["request"]["param"] = Absent

----------------------------------------------------------------------------
(* C5 *)

\* name = 'test' + rest, for some rest
StartsWithTest(name) ==
    \E n \in 0 .. Len(name) : name = TestPrefix \o SubSeq(name, n + 1, Len(name))

\* The decorator returned the function itself; the function has every
\* keyword as an attribute with the given value; its other attributes, and
\* the module, the class and the request, are as before.
TaggedAsGiven ==
    /\ last.ret = Func
    /\ \A n \in Names :
          attrs["function"][n] =
             IF n \in DOMAIN last.data THEN last.data[n] ELSE last.before["function"][n]
    /\ \A o \in Objects \ {"function"} : attrs[o] = last.before[o]

\* C5 as the specification states it: use_data of either copy tags every function, whatever its
\* name.
C5_AnyName == last.op \in {"use_data", "use_data_pkg"} => TaggedAsGiven

\* C5 for what each copy does: the package-level use_data tags every function; use_data of
\* functions.py tags every function whose name starts with test.
C5_Tagged ==
    (\/ last.op = "use_data_pkg"
     \/ last.op = "use_data" /\ StartsWithTest(fname)) => TaggedAsGiven

\* functions.use_data tagged the function testing with foo and data at once.
C5_Witness ==
    /\ last.op = "use_data"
    /\ fname # TestName /\ StartsWithTest(fname)
    /\ DOMAIN last.data = {"foo", "data"}
    /\ last.before["function"]["foo"] \notin {Absent, last.data["foo"]}
    /\ attrs["function"]["foo"] = last.data["foo"]
    /\ last.ret = Func

\* The package-level use_data tagged the function func, as the tests do, and
\* left its data attribute alone.
C5_WitnessPkg ==
    /\ last.op = "use_data_pkg"
    /\ ~StartsWithTest(fname)
    /\ DOMAIN last.data = {"foo"}
    /\ attrs["function"]["foo"] = Scalar(1)
    /\ attrs["function"]["data"] # Absent

----------------------------------------------------------------------------
(* C6 *)

\* C6: functions.use_data on a function whose name does not start with test
\* raises, and no attribute of the function is set or changed.
C6_AssertBeforeTagging ==
    (last.op = "use_data" /\ ~StartsWithTest(fname)) =>
        /\ last.ret = AssertionError
        /\ attrs = last.before

\* use_data(foo=..., data=...) on func raised and func still has no attribute.
C6_Witness ==
    /\ last.op = "use_data"
    /\ ~StartsWithTest(fname)
    /\ DOMAIN last.data = {"foo", "data"}
    /\ last.ret = AssertionError
    /\ attrs["function"]["foo"] = Absent
    /\ attrs["function"]["data"] = Absent

----------------------------------------------------------------------------
(* C9 *)

\* C9: the hook registers one indirect parametrization per key of the
\* function's data, over that key's values, and none without a data
\* attribute; use_data_parametrize(**d) returns the function and makes d its
\* data.
C9_Registrations ==
    /\ last.op = "pytest_generate_tests" =>
          LET data == attrs["function"]["data"]
          IN  /\ data = Absent => registered = EmptyBag
              /\ IsDict(heap, data) =>
                    LET d == heap[data.a].d
                    IN  registered =
                           SetToBag({[argnames |-> k, argvalues |-> d[k], indirect |-> TRUE] :
                                       k \in DOMAIN d})
    /\ last.op = "use_data_parametrize" =>
          /\ last.ret = Func
          /\ IsDict(heap, attrs["function"]["data"])
          /\ heap[attrs["function"]["data"].a].d = last.data
          /\ \A n \in Names \ {"data"} : attrs["function"][n] = last.before["function"][n]

\* After use_data_parametrize(client=L1, user=L1) the hook registered two
\* indirect parametrizations, client over L1 and user over L1.
C9_Witness ==
    /\ last.op = "pytest_generate_tests"
    /\ IsDict(heap, attrs["function"]["data"])
    /\ DOMAIN heap[attrs["function"]["data"].a].d = FixtureNames
    /\ BagCardinality(registered) = 2
    /\ \A f \in FixtureNames :
          CopiesIn([argnames |-> f, argvalues |-> L1, indirect |-> TRUE], registered) = 1

\* The hook registered nothing for a function without data.
C9_WitnessNoData ==
    /\ last.op = "pytest_generate_tests"
    /\ attrs["function"]["data"] = Absent
    /\ attrs["function"]["foo"] # Absent
    /\ registered = EmptyBag

----------------------------------------------------------------------------
(* C7 *)

\* C7: get_data changes no input (the default, the shared {} of the
\* signature, what the sources hold); the mappings it returns are new cells;
\* and every call of a test returns a value equal to the first call's,
\* whatever the caller did to the earlier results.
C7_InputsUntouched ==
    /\ SubSeq(heap, 1, PoolSize) = Pool
    /\ ret.k = "ref" => \A a \in Cells(heap, ret) : a > PoolSize
    /\ last.op = "get_data" => Plain(heap, ret) = first

\* A second call without the default argument, after the caller changed the
\* first result: it returned the first value again.
C7_Witness ==
    /\ last.op = "get_data"
    /\ calls = 2
    /\ default_data = SharedDefault
    /\ first.shape = "dict" /\ DOMAIN first.d = Keys
    /\ last.before.d # first.d
    /\ Plain(heap, ret) = first

\* The same in the list branch: an element of the first list was changed.
C7_WitnessList ==
    /\ last.op = "get_data"
    /\ calls = 2
    /\ first.shape = "list" /\ Len(first.l) = 2
    /\ last.before.l # first.l
    /\ Plain(heap, ret) = first

----------------------------------------------------------------------------
(* C8 *)

\* The overwrite merge of a sequence of mappings, later ones winning.
Overwrite(maps) ==
    [k \in UNION {DOMAIN maps[i] : i \in 1 .. Len(maps)} |->
       LET top == CHOOSE i \in 1 .. Len(maps) :
                     /\ k \in DOMAIN maps[i]
                     /\ \A j \in 1 .. Len(maps) : j > i => k \notin DOMAIN maps[j]
       IN  maps[top][k]]

\* What get_data has to return for the layers vs (default first), each a
\* value or Absent.
Expected(h, vs) ==
    LET kind == TypeOf(h, vs[1])
        asMap(v) == IF v = Absent THEN <<>> ELSE h[v.a].d
        asList(v) == IF v = Absent THEN <<>> ELSE Plain(h, v).l
    IN  IF \/ kind \notin {"dict", "list"}
           \/ \E i \in 2 .. Len(vs) : TypeOf(h, vs[i]) \notin {kind, "absent"}
        THEN Plain(h, ValueError)
        ELSE IF kind = "dict"
        THEN [shape |-> "dict", d |-> Overwrite([i \in 1 .. Len(vs) |-> asMap(vs[i])]),
              l |-> <<>>]
        ELSE LET ls == [i \in 1 .. Len(vs) |-> asList(vs[i])]
                 n == CHOOSE m \in {Len(ls[i]) : i \in 1 .. Len(vs)} :
                         \A i \in 1 .. Len(vs) : Len(ls[i]) <= m
             IN  [shape |-> "list", d |-> <<>>,
                  l |-> [x \in 1 .. n |->
                           Overwrite([i \in 1 .. Len(vs) |->
                                        IF ls[i] = <<>> THEN <<>>
                                        ELSE ls[i][((x - 1) % Len(ls[i])) + 1]])]]

\* C8: a get_data call returns the merge of what module, class, function and
\* request.param were last bound to, whatever was bound or returned before;
\* a use_data tagging replaces the function's earlier value.
C8_ReadsCurrentBindings ==
    /\ last.op = "get_data" =>
          Plain(heap, ret) =
             Expected(heap, <<default_data, bound.module, bound.cls, bound.function,
                              bound.param>>)
    /\ (last.op = "use_data" /\ last.ret = Func) =>
          \A n \in DOMAIN last.data : attrs["function"][n] = last.data[n]

\* The function was tagged with D1 and later with D2, the module holds D1:
\* get_data over the shared default returns D2's values.
C8_Witness ==
    /\ last.op = "get_data"
    /\ bound.retagged
    /\ bound.function = D2 /\ bound.module = D1 /\ bound.cls = Absent
    /\ default_data = SharedDefault
    /\ Plain(heap, ret).d = Pool[D2.a].d

====
